---- MODULE Spec2Model ----
(***************************************************************************)
(* A model of the RAG-Pdf-Talks backend: the document routes               *)
(* (upload_document, delete_document) over the SQLite documents table, the *)
(* uploads directory and the Pinecone index; the chat route over the       *)
(* in-memory conversation store; and VectorService.create_sparse_vector.   *)
(*                                                                         *)
(* The services the handlers await make blocking calls and never yield to  *)
(* the event loop; the one await that can suspend, file.read() in          *)
(* upload_document, comes before the handler has touched anything but its  *)
(* own new file. So each handler is one action.                            *)
(***************************************************************************)
EXTENDS Integers, Sequences, FiniteSets, TLC

VARIABLES
    documents,      \* the documents table: document_id -> row
    files,          \* the paths that exist in the uploads directory
    vectors,        \* the Pinecone index: document_id -> number of its vectors
    nextUuid,       \* the next uuid4 of the document routes (never repeats)
    resp,           \* the response of the last document request
    req             \* what the last document request was given and did

docVars == <<documents, files, vectors, nextUuid, resp, req>>

VARIABLES
    conversations,  \* chat.py:17  conversation_id -> the stored messages
    convLog,        \* every message appended to a stored conversation, in order
    nextConvUuid,   \* the next uuid4 of the chat route (never repeats)
    chatResp,       \* the response of the last chat-route request
    chatReq,        \* what the last chat-route request was given
    chatCount       \* chat requests handled so far

chatVars == <<conversations, convLog, nextConvUuid, chatResp, chatReq, chatCount>>

VARIABLES
    text,           \* the text create_sparse_vector is called with
    hashSeed,       \* the salt of this process's str hash (PYTHONHASHSEED)
    sparse          \* what create_sparse_vector returned

sparseVars == <<text, hashSeed, sparse>>

VARIABLES
    rows,           \* the rows of the documents table, in rowid order
    dbRet           \* the last DocumentDatabase call and what it returned

dbVars == <<rows, dbRet>>

VARIABLES
    cHeap,          \* the list objects of the chat route: object -> messages
    cStore,         \* conversations[conversation_id]: a list object, or 0
    cPc,            \* where each of the two chat requests is in the handler
    cHist,          \* each request's local `history`: a list object, or 0
    cGen,           \* the response text each request got
    cRunning,       \* the request that holds the event loop, or 0
    cExisted        \* the conversation existed before the two requests

concVars == <<cHeap, cStore, cPc, cHist, cGen, cRunning, cExisted>>

VARIABLES
    procSalt,       \* the hash salt of the server process that is running
    pinecone,       \* the records upserted into the Pinecone index
    query           \* the last query search_similar sent to the index

indexVars == <<procSalt, pinecone, query>>

vars == <<docVars, chatVars, sparseVars, dbVars, concVars, indexVars>>

\* ------------------------------------------------------------------ bounds

MaxUploads == 2     \* upload requests that reach uuid generation
MaxChunks == 2      \* the size of a small document, in chunks
MaxChats == 6       \* chat requests that reach response generation
MaxConvUuids == 1   \* conversation ids the chat route generates
MaxPieces == 5      \* the pieces an input text is put together from
NumSeeds == 2       \* the hash salts a process can start with
MaxIndexed == 2     \* the chunks the vector index holds
MaxDbIds == 3       \* the document ids DocumentDatabase is called with

\* --------------------------------------------------------------- constants

batch_size == 100   \* VectorService.add_documents upserts in batches of 100
KeepMessages == 10  \* the messages a stored conversation keeps
IndexSpace == 100000 \* vector_service.py:60  abs(hash(token)) % 100000
MinTokenLen == 2    \* vector_service.py:48  len(t) > 2

\* ------------------------------------------------------------------ inputs

PdfName == <<"a", ".", "p", "d", "f">>
UpperName == <<"a", ".", "P", "D", "F">>
TxtName == <<"a", ".", "t", "x", "t">>
NoDotName == <<"p", "d", "f">>

Filenames == {PdfName, UpperName, TxtName, NoDotName}

ChunkCounts == {0, MaxChunks, batch_size + 1}

DocIds == 1..MaxUploads

NoBatch == -1

\* ----------------------------------------------------------------- helpers

\* str.endswith
EndsWith(s, suffix) ==
    /\ Len(s) >= Len(suffix)
    /\ SubSeq(s, Len(s) - Len(suffix) + 1, Len(s)) = suffix

\* the check without the dot: 'pdf' passes as a filename
IsPdfFilename_NoDot(filename) == EndsWith(filename, <<"p", "d", "f">>)

\* documents.py:29  file.filename.endswith('.pdf')
IsPdfFilename(filename) == EndsWith(filename, <<".", "p", "d", "f">>)

\* documents.py:38  os.path.join(uploads_dir, f"{document_id}_{file.filename}")
FilePath(document_id, filename) == <<document_id, filename>>

\* the batches add_documents upserts for n vectors: range(0, n, batch_size)
NumBatches(n) == (n + batch_size - 1) \div batch_size

\* the vectors of the index after the batches before failBatch were upserted
Upserted(n, failBatch) ==
    IF failBatch = NoBatch THEN n ELSE failBatch * batch_size

\* index.upsert of the first k vectors "<document_id>_<i>" of a document
IndexUpsert(index, document_id, k) ==
    IF k = 0 THEN index
    ELSE [d \in DOMAIN index \cup {document_id} |->
            IF d = document_id THEN k ELSE index[d]]

\* a delete that drops the filter: every document's vectors go
IndexDeleteByFilter_All(index, document_id) == [d \in {} |-> 0]

\* index.delete(filter={"document_id": document_id})
IndexDeleteByFilter(index, document_id) ==
    [d \in DOMAIN index \ {document_id} |-> index[d]]

\* VectorService.delete_document: the index afterwards (an exception of the
\* Pinecone client is caught and the index is as it was)
VectorDelete(index, document_id, ok) ==
    IF ok THEN IndexDeleteByFilter(index, document_id) ELSE index

\* DocumentDatabase.add_document returns True: the INSERT and the commit
\* succeeded (a row with the same primary key makes the INSERT fail)
AddDocumentOk(table, info, dbOk) ==
    dbOk /\ info.document_id \notin DOMAIN table

\* an insert that is never committed
add_document_NoCommit(table, info, dbOk) == table

\* the documents table after DocumentDatabase.add_document
add_document(table, info, dbOk) ==
    IF AddDocumentOk(table, info, dbOk)
    THEN [d \in DOMAIN table \cup {info.document_id} |->
            IF d = info.document_id
            THEN [filename |-> info.filename,
                  upload_date |-> info.upload_date,
                  chunks_count |-> info.chunks_count,
                  status |-> info.status,
                  file_path |-> info.file_path]
            ELSE table[d]]
    ELSE table

\* a lookup that answers with an object whether or not a row was found
get_document_Always(table, document_id, dbOk) == dbOk

\* DocumentDatabase.get_document: the row exists and the SELECT succeeded
get_document(table, document_id, dbOk) ==
    dbOk /\ document_id \in DOMAIN table

\* DocumentDatabase.delete_document returns True: rowcount > 0
DbDeleteOk(table, document_id, dbOk) ==
    dbOk /\ document_id \in DOMAIN table

\* the documents table after DocumentDatabase.delete_document
db_delete_document(table, document_id, dbOk) ==
    IF dbOk THEN [d \in DOMAIN table \ {document_id} |-> table[d]] ELSE table

EmptyFn == [d \in {} |-> 0]

\* a row object that is not a row (the route's doc_info when it is not one)
NoRow ==
    [filename |-> <<>>, upload_date |-> 0, chunks_count |-> 0, status |-> "",
     file_path |-> <<0, <<>>>>]

NoReq ==
    [op |-> "none", filename |-> <<>>, document_id |-> 0, text_empty |-> FALSE,
     chunks |-> 0, wrote |-> FALSE, upserted |-> 0, vec_delete |-> 0,
     vec_delete_ok |-> FALSE, removed |-> FALSE, db_failed |-> FALSE]

NoResp ==
    [op |-> "none", status |-> 0, detail |-> "", document_id |-> 0,
     chunks_count |-> 0, doc_status |-> ""]

\* -------------------------------------------------------------------- Init

InitDocs ==
    /\ documents = EmptyFn
    /\ files = {}
    /\ vectors = EmptyFn
    /\ nextUuid = 1
    /\ resp = NoResp
    /\ req = NoReq

\* ------------------------------------------------------- upload_document

\* documents.py:28-30: the filename is not a PDF's: HTTP 400, outside the try
UploadRejected(filename) ==
    /\ ~IsPdfFilename(filename)
    /\ resp' = [NoResp EXCEPT !.op = "upload", !.status = 400,
                              !.detail = "Only PDF files are supported"]
    /\ req' = [NoReq EXCEPT !.op = "upload", !.filename = filename]
    /\ UNCHANGED <<documents, files, vectors, nextUuid>>

\* documents.py:96-100: the except clause: the file is removed when it exists
\* and the client is answered 500, whatever was raised in the try
UploadFailed(filename, r, files1, vectors1) ==
    LET path == FilePath(nextUuid, filename) IN
    /\ documents' = documents
    /\ vectors' = vectors1
    /\ files' = files1 \ {path}
    /\ req' = [r EXCEPT !.removed = (path \in files1)]
    /\ resp' = [NoResp EXCEPT !.op = "upload", !.status = 500,
                              !.detail = "Error processing document"]

\* documents.py:32-100: a PDF filename; the body of the try up to the first
\* thing that fails, and the except clause after it.
\*   write      "ok", or open() raised, or f.write() raised
\*   text_empty extract_text_from_pdf returned ""
\*   nchunks    len(split_text_into_chunks(text_content))
\*   failBatch  the batch whose index.upsert raised (add_documents returns False)
\*   dbOk       the INSERT and commit of db.add_document succeeded
\*   vecDelOk   the index.delete of the rollback succeeded
UploadAccepted(filename, write, text_empty, nchunks, failBatch, dbOk, vecDelOk) ==
    LET document_id == nextUuid
        path == FilePath(document_id, filename)
        r0 == [NoReq EXCEPT !.op = "upload", !.filename = filename,
                            !.document_id = document_id]
        files1 == IF write = "open_error" THEN files ELSE files \cup {path}
        r1 == [r0 EXCEPT !.wrote = (write # "open_error")]
        upserted == Upserted(nchunks, failBatch)
        vectors1 == IndexUpsert(vectors, document_id, upserted)
        r2 == [r1 EXCEPT !.chunks = nchunks, !.upserted = upserted]
        document_info == [document_id |-> document_id,
                          filename |-> filename,
                          upload_date |-> document_id,
                          chunks_count |-> nchunks,
                          status |-> "processed",
                          file_path |-> path]
    IN
    /\ IsPdfFilename(filename)
    /\ nextUuid <= MaxUploads
    /\ nextUuid' = nextUuid + 1
    /\ IF write # "ok"
       THEN UploadFailed(filename, r1, files1, vectors)
       ELSE IF text_empty
       THEN UploadFailed(filename, [r1 EXCEPT !.text_empty = TRUE],
                         files1, vectors)
       ELSE IF failBatch # NoBatch
       THEN UploadFailed(filename, r2, files1, vectors1)
       ELSE IF ~AddDocumentOk(documents, document_info, dbOk)
       THEN UploadFailed(filename,
                         [r2 EXCEPT !.db_failed = TRUE,
                                    !.vec_delete = document_id,
                                    !.vec_delete_ok = vecDelOk],
                         files1,
                         VectorDelete(vectors1, document_id, vecDelOk))
       ELSE /\ documents' = add_document(documents, document_info, dbOk)
            /\ files' = files1
            /\ vectors' = vectors1
            /\ req' = r2
            /\ resp' = [NoResp EXCEPT !.op = "upload", !.status = 200,
                                      !.document_id = document_id,
                                      !.chunks_count = nchunks,
                                      !.doc_status = "processed"]

\* One upload request. The inputs a run does not read are fixed, so that each
\* run of the handler is drawn once.
upload_document ==
    \E filename \in Filenames :
        \/ UploadRejected(filename)
        \/ \E write \in {"open_error", "write_error"} :
              UploadAccepted(filename, write, FALSE, 0, NoBatch, TRUE, TRUE)
        \/ UploadAccepted(filename, "ok", TRUE, 0, NoBatch, TRUE, TRUE)
        \/ \E nchunks \in ChunkCounts :
              \E failBatch \in 0..(NumBatches(nchunks) - 1) :
                 UploadAccepted(filename, "ok", FALSE, nchunks, failBatch,
                                TRUE, TRUE)
        \/ \E nchunks \in ChunkCounts, vecDelOk \in BOOLEAN :
              UploadAccepted(filename, "ok", FALSE, nchunks, NoBatch,
                             FALSE, vecDelOk)
        \/ \E nchunks \in ChunkCounts :
              UploadAccepted(filename, "ok", FALSE, nchunks, NoBatch,
                             TRUE, TRUE)

\* ------------------------------------------------- delete_document (route)

\* documents.py:129-131: no row (or the SELECT failed): HTTP 404
DeleteNotFound(document_id, dbReadOk) ==
    /\ ~get_document(documents, document_id, dbReadOk)
    /\ resp' = [NoResp EXCEPT !.op = "delete", !.status = 404,
                              !.detail = "Document not found",
                              !.document_id = document_id]
    /\ req' = [NoReq EXCEPT !.op = "delete", !.document_id = document_id]
    /\ UNCHANGED <<documents, files, vectors, nextUuid>>

\* documents.py:133-166: the three steps and the "partial"/"success" answer
DeleteFound(document_id, vecOk, rmOk, dbDelOk) ==
    /\ get_document(documents, document_id, TRUE)
    /\ LET found == document_id \in DOMAIN documents
           doc_info == IF found THEN documents[document_id] ELSE NoRow
           exists == found /\ doc_info.file_path \in files
           errors == (IF vecOk THEN {} ELSE {"vector"})
                     \cup (IF ~found \/ (exists /\ ~rmOk) THEN {"file"} ELSE {})
                     \cup (IF DbDeleteOk(documents, document_id, dbDelOk)
                           THEN {} ELSE {"database"})
       IN
       /\ vectors' = VectorDelete(vectors, document_id, vecOk)
       /\ files' = IF exists /\ rmOk THEN files \ {doc_info.file_path} ELSE files
       /\ documents' = db_delete_document(documents, document_id, dbDelOk)
       /\ req' = [NoReq EXCEPT !.op = "delete", !.document_id = document_id,
                               !.vec_delete = document_id,
                               !.vec_delete_ok = vecOk,
                               !.removed = (exists /\ rmOk),
                               !.db_failed = ~dbDelOk]
       /\ resp' = [NoResp EXCEPT !.op = "delete", !.status = 200,
                                 !.document_id = document_id,
                                 !.doc_status = IF errors = {} THEN "success"
                                                ELSE "partial"]
    /\ UNCHANGED nextUuid

delete_document ==
    \E document_id \in DocIds :
        \/ \E dbReadOk \in BOOLEAN : DeleteNotFound(document_id, dbReadOk)
        \/ \E vecOk \in BOOLEAN, rmOk \in BOOLEAN, dbDelOk \in BOOLEAN :
              DeleteFound(document_id, vecOk, rmOk, dbDelOk)


\* ==================================================================== chat

NoneId == <<"none", 0>>         \* conversation_id: None (the field's default)
EmptyId == <<"client", 0>>      \* conversation_id: ""
ClientId == <<"client", 1>>     \* an id the client made up
UuidId(n) == <<"uuid", n>>      \* str(uuid.uuid4())

Messages == {"m1", "m2"}
Responses == {"r1"}
GenError == "GenError"          \* generate_response raised

UserMessage(content) == [role |-> "user", content |-> content]
AssistantMessage(content) == [role |-> "assistant", content |-> content]

\* Python truthiness of request.conversation_id
Truthy(id) == id # NoneId /\ id # EmptyId

\* an id that is generated whatever the request carries
ConversationIdOf_AlwaysFresh(given, fresh) == fresh

\* chat.py:27  request.conversation_id or str(uuid.uuid4())
ConversationIdOf(given, fresh) == IF Truthy(given) THEN given ELSE fresh

\* chat.py:30  conversations.get(conversation_id, [])
History(convs, cid) == IF cid \in DOMAIN convs THEN convs[cid] ELSE <<>>

\* history[:10]: the first ten messages instead of the last
KeepLast_First(history) ==
    IF Len(history) <= KeepMessages THEN history
    ELSE SubSeq(history, 1, KeepMessages)

\* chat.py:73  history[-10:]
KeepLast(history) ==
    IF Len(history) <= KeepMessages THEN history
    ELSE SubSeq(history, Len(history) - KeepMessages + 1, Len(history))

\* conversations[conversation_id] = value
StoreConversation(convs, cid, value) ==
    [c \in DOMAIN convs \cup {cid} |-> IF c = cid THEN value ELSE convs[c]]

\* the user message appended to the stored list before generate_response is
\* awaited: a failed generation leaves it in an existing conversation
ChatEffect_AppendFirst(convs, cid, message, gen) ==
    IF gen = GenError
    THEN IF cid \in DOMAIN convs
         THEN [convs EXCEPT ![cid] = Append(@, UserMessage(message))]
         ELSE convs
    ELSE StoreConversation(convs, cid,
            KeepLast(History(convs, cid)
                     \o <<UserMessage(message), AssistantMessage(gen)>>))

\* chat.py:63-73: the conversation store after the handler: generate_response
\* is awaited first; only when it returned are the two messages appended to
\* history and its last ten stored. When it raised nothing was touched.
ChatEffect(convs, cid, message, gen) ==
    IF gen = GenError THEN convs
    ELSE StoreConversation(convs, cid,
            KeepLast(History(convs, cid)
                     \o <<UserMessage(message), AssistantMessage(gen)>>))

\* chat.py:90-96  get_conversation
GetConversation(convs, cid) ==
    IF cid \notin DOMAIN convs
    THEN [status |-> 404, messages |-> <<>>]
    ELSE [status |-> 200, messages |-> convs[cid]]

NoChatReq ==
    [op |-> "none", conversation_id |-> NoneId, message |-> "",
     fresh |-> NoneId, gen_failed |-> FALSE]

NoChatResp ==
    [op |-> "none", status |-> 0, conversation_id |-> NoneId, response |-> "",
     sources |-> 0, messages |-> <<>>]

InitChat ==
    /\ conversations = [c \in {} |-> <<>>]
    /\ convLog = [c \in {} |-> <<>>]
    /\ nextConvUuid = 1
    /\ chatResp = NoChatResp
    /\ chatReq = NoChatReq
    /\ chatCount = 0

\* the ids a request can carry: none, the empty string, an id of the client's
\* own, or any id the server handed out or stores
RequestIds == {NoneId, EmptyId, ClientId} \cup DOMAIN conversations

\* chat.py:20-82  chat. with_document: request.document_id is given and the
\* vector search returned nresults matches (an error of the search is caught
\* and leaves none); they only feed the prompt and the response's sources.
chat(given, message, nresults, gen) ==
    LET fresh == UuidId(nextConvUuid)
        conversation_id == ConversationIdOf(given, fresh)
        after == ChatEffect(conversations, conversation_id, message, gen)
    IN
    /\ chatCount < MaxChats
    /\ Truthy(given) \/ nextConvUuid <= MaxConvUuids
    /\ chatCount' = chatCount + 1
    /\ nextConvUuid' = IF Truthy(given) THEN nextConvUuid ELSE nextConvUuid + 1
    /\ conversations' = after
    /\ convLog' = IF gen = GenError THEN convLog
                  ELSE StoreConversation(convLog, conversation_id,
                          History(convLog, conversation_id)
                          \o <<UserMessage(message), AssistantMessage(gen)>>)
    /\ chatReq' = [op |-> "chat", conversation_id |-> given, message |-> message,
                   fresh |-> fresh, gen_failed |-> (gen = GenError)]
    /\ chatResp' = IF gen = GenError
                   THEN [NoChatResp EXCEPT !.op = "chat", !.status = 500]
                   ELSE [NoChatResp EXCEPT !.op = "chat", !.status = 200,
                                           !.conversation_id = conversation_id,
                                           !.response = gen,
                                           !.sources = nresults]

chat_request ==
    \E given \in RequestIds, message \in Messages, nresults \in 0..1,
       gen \in Responses \cup {GenError} :
        chat(given, message, nresults, gen)

\* chat.py:85-96  get_conversation
get_conversation ==
    \E cid \in RequestIds \ {NoneId} :
        LET r == GetConversation(conversations, cid) IN
        /\ chatResp' = [NoChatResp EXCEPT !.op = "get_conversation",
                                          !.status = r.status,
                                          !.conversation_id = cid,
                                          !.messages = r.messages]
        /\ chatReq' = [NoChatReq EXCEPT !.op = "get_conversation",
                                        !.conversation_id = cid]
        /\ UNCHANGED <<conversations, convLog, nextConvUuid, chatCount>>

\* chat.py:99-108  delete_conversation
delete_conversation ==
    \E cid \in RequestIds \ {NoneId} :
        /\ conversations' =
              [c \in DOMAIN conversations \ {cid} |-> conversations[c]]
        /\ convLog' = [c \in DOMAIN convLog \ {cid} |-> convLog[c]]
        /\ chatResp' = [NoChatResp EXCEPT
                           !.op = "delete_conversation",
                           !.status = IF cid \in DOMAIN conversations
                                      THEN 200 ELSE 404,
                           !.conversation_id = cid]
        /\ chatReq' = [NoChatReq EXCEPT !.op = "delete_conversation",
                                        !.conversation_id = cid]
        /\ UNCHANGED <<nextConvUuid, chatCount>>

\* ==================================================== create_sparse_vector

\* The input texts: up to MaxPieces pieces, joined without a separator, so
\* that tokens repeat, run together, and are cut by spaces.
Pieces ==
    {<<"T", "h", "e">>, <<"t", "e", "e">>, <<"h", "e", "h">>, <<" ">>, <<"e">>}

RECURSIVE Join(_)
Join(ps) == IF ps = <<>> THEN <<>> ELSE Head(ps) \o Join(Tail(ps))

Texts == {Join(ps) : ps \in UNION {[1..n -> Pieces] : n \in 0..MaxPieces}}

Seeds == 1..NumSeeds

\* str.lower()
Lower(c) == IF c = "T" THEN "t" ELSE c

LowerText(s) == [i \in 1..Len(s) |-> Lower(s[i])]

\* \w of the pattern
IsWordChar(c) == c # " "

\* re.findall(r'\b\w+\b', s): the maximal runs of word characters, in order
RECURSIVE FindTokens(_, _, _)
FindTokens(s, i, cur) ==
    IF i > Len(s)
    THEN (IF cur = <<>> THEN <<>> ELSE <<cur>>)
    ELSE IF IsWordChar(s[i])
    THEN FindTokens(s, i + 1, Append(cur, s[i]))
    ELSE (IF cur = <<>> THEN <<>> ELSE <<cur>>) \o FindTokens(s, i + 1, <<>>)

\* vector_service.py:47
stop_words ==
    {<<"t", "h", "e">>, <<"a">>, <<"a", "n">>, <<"a", "n", "d">>, <<"o", "r">>,
     <<"b", "u", "t">>, <<"i", "n">>, <<"o", "n">>, <<"a", "t">>, <<"t", "o">>,
     <<"f", "o", "r">>, <<"o", "f">>, <<"i", "s">>, <<"a", "r", "e">>,
     <<"w", "a", "s">>, <<"w", "e", "r", "e">>}

\* vector_service.py:48
KeepToken(t) == Len(t) > MinTokenLen /\ t \notin stop_words

FilterTokens(tokens) == SelectSeq(tokens, KeepToken)

\* Counter(tokens)[t]
TokenCount(tokens, t) == Cardinality({i \in 1..Len(tokens) : tokens[i] = t})

\* the keys of Counter(tokens), in the order of first occurrence
RECURSIVE CounterKeys(_, _)
CounterKeys(tokens, seen) ==
    IF tokens = <<>> THEN <<>>
    ELSE IF Head(tokens) \in seen THEN CounterKeys(Tail(tokens), seen)
    ELSE <<Head(tokens)>> \o CounterKeys(Tail(tokens), seen \cup {Head(tokens)})

\* ord(c)
Ord(c) ==
    CASE c = "t" -> 116 [] c = "h" -> 104 [] c = "e" -> 101 [] OTHER -> 0

RECURSIVE Poly(_, _)
Poly(token, acc) ==
    IF token = <<>> THEN acc
    ELSE Poly(Tail(token), (acc * 31 + Ord(Head(token))) % 1009)

\* The values hash() takes in the model: below zero, zero, above the index
\* space, and pairs that differ only by sign or by a multiple of 100000.
HashValues == <<-100003, 3, 0, 200007, -7, 99999, 100003>>

\* hash(token): a signed 64-bit value that depends on the token and on the
\* salt the process started with, and on nothing else
PyHash(seed, token) == HashValues[((Poly(token, 7) * seed) % Len(HashValues)) + 1]

Abs(n) == IF n < 0 THEN -n ELSE n

\* vector_service.py:60  abs(hash(token)) % 100000
TokenIndex(seed, token) == Abs(PyHash(seed, token)) % IndexSpace

Max(a, b) == IF a >= b THEN a ELSE b

\* exact fractions stand for the floats of the code
Rat(n, d) == [num |-> n, den |-> d]
RatAdd(a, b) == Rat(a.num * b.den + b.num * a.den, a.den * b.den)
RatEq(a, b) == a.num * b.den = b.num * a.den

\* vector_service.py:62  float(count) / max(total_tokens, 1)
TfValue(count, total_tokens) == Rat(count, Max(total_tokens, 1))

\* a slot that is overwritten when two tokens hash to it
Aggregate_Overwrite(index_value_map, token_hash, tf_value) ==
    [i \in DOMAIN index_value_map \cup {token_hash} |->
        IF i = token_hash THEN tf_value ELSE index_value_map[i]]

\* vector_service.py:65-68: add to the slot when it is taken, else fill it
Aggregate(index_value_map, token_hash, tf_value) ==
    IF token_hash \in DOMAIN index_value_map
    THEN [index_value_map EXCEPT ![token_hash] = RatAdd(@, tf_value)]
    ELSE [i \in DOMAIN index_value_map \cup {token_hash} |->
            IF i = token_hash THEN tf_value ELSE index_value_map[i]]

\* vector_service.py:58-68: the loop over token_counts.items()
RECURSIVE BuildIndexValueMap(_, _, _, _)
BuildIndexValueMap(keys, tokens, seed, index_value_map) ==
    IF keys = <<>> THEN index_value_map
    ELSE BuildIndexValueMap(
            Tail(keys), tokens, seed,
            Aggregate(index_value_map,
                      TokenIndex(seed, Head(keys)),
                      TfValue(TokenCount(tokens, Head(keys)), Len(tokens))))

\* sorted(index_value_map.items()): the keys in increasing order
RECURSIVE SortedKeys(_)
SortedKeys(S) ==
    IF S = {} THEN <<>>
    ELSE LET m == CHOOSE x \in S : \A y \in S : x <= y
         IN <<m>> \o SortedKeys(S \ {m})

\* vector_service.py:41-78
create_sparse_vector(seed, s) ==
    LET tokens == FilterTokens(FindTokens(LowerText(s), 1, <<>>))
        index_value_map ==
            BuildIndexValueMap(CounterKeys(tokens, {}), tokens, seed,
                               [i \in {} |-> Rat(0, 1)])
        indices == SortedKeys(DOMAIN index_value_map)
    IN [indices |-> indices,
        values |-> [k \in 1..Len(indices) |-> index_value_map[indices[k]]]]

NotCalled == [called |-> FALSE, indices |-> <<>>, values |-> <<>>]

InitSparseIdle ==
    /\ text = <<>>
    /\ hashSeed = 1
    /\ sparse = NotCalled

InitSparse ==
    /\ text \in Texts
    /\ hashSeed \in Seeds
    /\ sparse = NotCalled

\* a call of VectorService.create_sparse_vector in this process
CreateSparseVector ==
    LET r == create_sparse_vector(hashSeed, text) IN
    /\ sparse' = [called |-> TRUE, indices |-> r.indices, values |-> r.values]
    /\ UNCHANGED <<text, hashSeed>>

\* ======================================================= DocumentDatabase

\* The methods of DocumentDatabase called directly, with any document_id, on
\* the table as SQLite holds it: a list of rows.

DbIds == 1..MaxDbIds

\* the document_info dicts add_document is called with
DocumentInfos ==
    [document_id : DbIds, filename : {PdfName}, upload_date : {0},
     chunks_count : {0, 1}, status : {"processed"},
     file_path : {<<0, PdfName>>}]

\* a table declared without a key accepts every row
PrimaryKeyFree_NoKey(table_rows, document_id) == TRUE

\* database.py:23  document_id TEXT PRIMARY KEY: the INSERT of a row is
\* accepted only when no row has its document_id
PrimaryKeyFree(table_rows, document_id) ==
    \A i \in 1..Len(table_rows) : table_rows[i].document_id # document_id

\* database.py:37-58: add_document returns True
InsertOk(table_rows, info, dbOk) ==
    dbOk /\ PrimaryKeyFree(table_rows, info.document_id)

\* database.py:41-53: the table after add_document (an INSERT that raised is
\* never committed)
InsertRow(table_rows, info, dbOk) ==
    IF InsertOk(table_rows, info, dbOk) THEN Append(table_rows, info)
    ELSE table_rows

\* database.py:99  DELETE FROM documents WHERE document_id = ?
DeleteRows(table_rows, document_id) ==
    SelectSeq(table_rows, LAMBDA r : r.document_id # document_id)

NoDbRet ==
    [op |-> "none", document_id |-> 0, result |-> FALSE, existed |-> FALSE,
     info |-> [document_id |-> 0, filename |-> <<>>, upload_date |-> 0,
               chunks_count |-> 0, status |-> "", file_path |-> <<0, <<>>>>]]

InitDb ==
    /\ rows = <<>>
    /\ dbRet = NoDbRet

\* database.py:35-58  DocumentDatabase.add_document
db_add_document ==
    \E info \in DocumentInfos, dbOk \in BOOLEAN :
        /\ rows' = InsertRow(rows, info, dbOk)
        /\ dbRet' = [op |-> "add", document_id |-> info.document_id,
                     result |-> InsertOk(rows, info, dbOk),
                     existed |-> (\E i \in 1..Len(rows) :
                                     rows[i].document_id = info.document_id),
                     info |-> info]

\* database.py:93-107  DocumentDatabase.delete_document: rowcount > 0, or
\* False when the statement raised
db_delete ==
    \E document_id \in DbIds, dbOk \in BOOLEAN :
        LET after == IF dbOk THEN DeleteRows(rows, document_id) ELSE rows IN
        /\ rows' = after
        /\ dbRet' = [NoDbRet EXCEPT
                        !.op = "delete", !.document_id = document_id,
                        !.result = (dbOk /\ Len(after) < Len(rows)),
                        !.existed = (\E i \in 1..Len(rows) :
                                        rows[i].document_id = document_id)]

\* ======================================================== concurrent chat

\* Two chat requests with the same conversation_id on one event loop. The
\* handler is cut at its two awaits; a request keeps the loop across an
\* await that does not suspend, and gives it up at one that does. Lists are
\* objects: `history` is the stored list itself when the conversation
\* exists, and history[-10:] is a new list.

Tasks == {1, 2}

\* request.message of each of the two requests
TaskMessage(p) == IF p = 1 THEN "m1" ELSE "m2"

\* vector_service.py:106-136: search_similar holds no await: it calls the
\* blocking index.query, so awaiting it never yields to the event loop
SearchSuspends == FALSE

\* a generate_response that awaits an async client and yields the loop
GenerateSuspends_Async == TRUE

\* ai_service.py:87-104: generate_response holds no await: it calls the
\* blocking generate_content / chat.completions.create
GenerateSuspends == FALSE

NewObject(heap) == Cardinality(DOMAIN heap) + 1

Allocate(heap, value) ==
    [o \in DOMAIN heap \cup {NewObject(heap)} |->
        IF o = NewObject(heap) THEN value ELSE heap[o]]

PriorPair == <<UserMessage("m0"), AssistantMessage("r0")>>

RECURSIVE PriorHistory(_)
PriorHistory(pairs) ==
    IF pairs = 0 THEN <<>> ELSE PriorHistory(pairs - 1) \o PriorPair

InitConcIdle ==
    /\ cHeap = [o \in {} |-> <<>>]
    /\ cStore = 0
    /\ cPc = [p \in Tasks |-> "start"]
    /\ cHist = [p \in Tasks |-> 0]
    /\ cGen = [p \in Tasks |-> ""]
    /\ cRunning = 0
    /\ cExisted = FALSE

\* the conversation is new, or holds one to five earlier exchanges
InitConc ==
    /\ cExisted \in BOOLEAN
    /\ IF cExisted
       THEN \E pairs \in 1..(KeepMessages \div 2) :
               /\ cHeap = Allocate([o \in {} |-> <<>>], PriorHistory(pairs))
               /\ cStore = 1
       ELSE /\ cHeap = [o \in {} |-> <<>>]
            /\ cStore = 0
    /\ cPc = [p \in Tasks |-> "start"]
    /\ cHist = [p \in Tasks |-> 0]
    /\ cGen = [p \in Tasks |-> ""]
    /\ cRunning = 0

\* chat.py:26-39/63: from the start of the handler to its first await
ChatStart(p, with_document) ==
    /\ cPc[p] = "start"
    /\ cRunning = 0
    /\ IF cStore # 0
       THEN /\ cHist' = [cHist EXCEPT ![p] = cStore]
            /\ cHeap' = cHeap
       ELSE /\ cHist' = [cHist EXCEPT ![p] = NewObject(cHeap)]
            /\ cHeap' = Allocate(cHeap, <<>>)
    /\ cPc' = [cPc EXCEPT ![p] = IF with_document THEN "search" ELSE "generate"]
    /\ cRunning' = IF with_document
                   THEN (IF SearchSuspends THEN 0 ELSE p)
                   ELSE (IF GenerateSuspends THEN 0 ELSE p)
    /\ UNCHANGED <<cStore, cGen, cExisted>>

\* chat.py:39-63: search_similar returned (or raised and was caught); on to
\* the await of generate_response
ChatAfterSearch(p) ==
    /\ cPc[p] = "search"
    /\ cRunning \in {0, p}
    /\ cPc' = [cPc EXCEPT ![p] = "generate"]
    /\ cRunning' = IF GenerateSuspends THEN 0 ELSE p
    /\ UNCHANGED <<cHeap, cStore, cHist, cGen, cExisted>>

\* chat.py:63-82: generate_response returned or raised; the two appends to
\* `history` and the store of its last ten, or the 500
ChatAfterGenerate(p, gen) ==
    /\ cPc[p] = "generate"
    /\ cRunning \in {0, p}
    /\ cRunning' = 0
    /\ IF gen = GenError
       THEN /\ cPc' = [cPc EXCEPT ![p] = "failed"]
            /\ UNCHANGED <<cHeap, cStore, cGen>>
       ELSE LET appended ==
                    cHeap[cHist[p]]
                    \o <<UserMessage(TaskMessage(p)), AssistantMessage(gen)>>
                heap1 == [cHeap EXCEPT ![cHist[p]] = appended]
            IN
            /\ cHeap' = Allocate(heap1, KeepLast(appended))
            /\ cStore' = NewObject(heap1)
            /\ cGen' = [cGen EXCEPT ![p] = gen]
            /\ cPc' = [cPc EXCEPT ![p] = "done"]
    /\ UNCHANGED <<cHist, cExisted>>

\* ============================================= indexing and querying

\* add_documents and search_similar both call create_sparse_vector, each in
\* the server process that serves the request. hash() of a str is salted
\* with a value the interpreter draws when the process starts, so a restart
\* of the server changes the salt; the index is external and keeps its
\* records.

\* chunk texts and queries: one token, two tokens, a stop word, no token
ChunkTexts == Pieces \cup {Join(<<<<"t", "e", "e">>, <<" ">>, <<"h", "e", "h">>>>)}

\* the tokens of a text that get an index, each with the index it gets
\* (vector_service.py:44-60)
TokenIndexMap(seed, s) ==
    LET tokens == FilterTokens(FindTokens(LowerText(s), 1, <<>>))
    IN [t \in {tokens[i] : i \in 1..Len(tokens)} |-> TokenIndex(seed, t)]

\* what one call of create_sparse_vector in the running process produces
VectorRecord(seed, s) ==
    [text |-> s,
     sparse_values |-> create_sparse_vector(seed, s),
     token_index |-> TokenIndexMap(seed, s)]

NoQuery ==
    [called |-> FALSE, text |-> <<>>,
     sparse_values |-> [indices |-> <<>>, values |-> <<>>],
     token_index |-> [t \in {} |-> 0]]

InitIndexIdle ==
    /\ procSalt = 1
    /\ pinecone = {}
    /\ query = NoQuery

InitIndex ==
    /\ procSalt \in Seeds
    /\ pinecone = {}
    /\ query = NoQuery

\* vector_service.py:80-104: a chunk is turned into a sparse vector and
\* upserted
AddDocuments ==
    \E chunk \in ChunkTexts :
       /\ Cardinality(pinecone) < MaxIndexed
       /\ pinecone' = pinecone \cup {VectorRecord(procSalt, chunk)}
       /\ UNCHANGED <<procSalt, query>>

\* vector_service.py:106-116: the query is turned into a sparse vector and
\* sent to the index
SearchSimilar ==
    \E q \in ChunkTexts :
       /\ query' = [called |-> TRUE] @@ VectorRecord(procSalt, q)
       /\ UNCHANGED <<procSalt, pinecone>>

\* main.py:62-64: the server is started again; the new interpreter draws a
\* salt
RestartProcess ==
    \E seed \in Seeds :
       /\ procSalt' = seed
       /\ UNCHANGED <<pinecone, query>>

\* --------------------------------------------------------- specifications

Init == InitDocs /\ InitChat /\ InitSparseIdle /\ InitDb /\ InitConcIdle /\ InitIndexIdle

NextDocs ==
    \/ upload_document /\ UNCHANGED <<chatVars, sparseVars, dbVars, concVars, indexVars>>
    \/ delete_document /\ UNCHANGED <<chatVars, sparseVars, dbVars, concVars, indexVars>>

SpecDocs == Init /\ [][NextDocs]_vars

NextChat ==
    \/ chat_request /\ UNCHANGED <<docVars, sparseVars, dbVars, concVars, indexVars>>
    \/ get_conversation /\ UNCHANGED <<docVars, sparseVars, dbVars, concVars, indexVars>>
    \/ delete_conversation /\ UNCHANGED <<docVars, sparseVars, dbVars, concVars, indexVars>>

SpecChat == Init /\ [][NextChat]_vars

NextSparse == CreateSparseVector /\ UNCHANGED <<docVars, chatVars, dbVars, concVars, indexVars>>

\* a process that is about to call create_sparse_vector with some text
InitWithText == InitDocs /\ InitChat /\ InitSparse /\ InitDb /\ InitConcIdle /\ InitIndexIdle

SpecSparse == InitWithText /\ [][NextSparse]_vars

NextDb ==
    \/ db_add_document /\ UNCHANGED <<docVars, chatVars, sparseVars, concVars, indexVars>>
    \/ db_delete /\ UNCHANGED <<docVars, chatVars, sparseVars, concVars, indexVars>>

SpecDb == Init /\ [][NextDb]_vars

\* two chat requests with the same conversation_id arrive at one event loop
InitTwoChats == InitDocs /\ InitChat /\ InitSparseIdle /\ InitDb /\ InitConc /\ InitIndexIdle

NextConc ==
    \/ \E p \in Tasks, with_document \in BOOLEAN :
          ChatStart(p, with_document) /\ UNCHANGED <<docVars, chatVars, sparseVars, dbVars, indexVars>>
    \/ \E p \in Tasks : ChatAfterSearch(p) /\ UNCHANGED <<docVars, chatVars, sparseVars, dbVars, indexVars>>
    \/ \E p \in Tasks, gen \in Responses \cup {GenError} :
          ChatAfterGenerate(p, gen) /\ UNCHANGED <<docVars, chatVars, sparseVars, dbVars, indexVars>>

SpecConc == InitTwoChats /\ [][NextConc]_vars

\* a server process starts with some hash salt and an empty index
InitServer == InitDocs /\ InitChat /\ InitSparseIdle /\ InitDb /\ InitConcIdle /\ InitIndex

NextIndex ==
    \/ AddDocuments /\ UNCHANGED <<docVars, chatVars, sparseVars, dbVars, concVars>>
    \/ SearchSimilar /\ UNCHANGED <<docVars, chatVars, sparseVars, dbVars, concVars>>
    \/ RestartProcess /\ UNCHANGED <<docVars, chatVars, sparseVars, dbVars, concVars>>

SpecIndex == InitServer /\ [][NextIndex]_vars

Next == NextDocs \/ NextChat \/ NextSparse \/ NextDb \/ NextConc \/ NextIndex

Spec == Init /\ [][Next]_vars

\* ================================================================== claims

\* C1: every upload_document request that answers with success adds exactly
\* one record to the documents table: the record has the returned
\* document_id, status "processed" and a chunks_count equal to the number of
\* chunks sent to the vector index, and no other record is added, changed or
\* removed.
C1_UploadSuccessAddsOneRecord ==
    [][(resp'.op = "upload" /\ resp'.status = 200) =>
        LET id == resp'.document_id IN
        /\ id \notin DOMAIN documents
        /\ DOMAIN documents' = DOMAIN documents \cup {id}
        /\ Cardinality(DOMAIN documents') = Cardinality(DOMAIN documents) + 1
        /\ \A d \in DOMAIN documents : documents'[d] = documents[d]
        /\ documents'[id].status = "processed"
        /\ documents'[id].chunks_count = req'.upserted
        /\ resp'.chunks_count = req'.upserted
        /\ resp'.doc_status = "processed"]_vars

\* a second upload succeeded with a document of two batches
C1_Witness ==
    /\ resp.op = "upload" /\ resp.status = 200
    /\ Cardinality(DOMAIN documents) = 2
    /\ documents[resp.document_id].chunks_count = batch_size + 1
    /\ req.upserted = batch_size + 1

\* C2: an upload whose filename does not end in ".pdf" is answered with HTTP
\* 400 before any side effect: no file is written, no vector is upserted and
\* the documents table, the uploads directory and the index are unchanged.
C2_NonPdfRejected ==
    [][(req'.op = "upload" /\ ~EndsWith(req'.filename, <<".", "p", "d", "f">>)) =>
        /\ resp'.status = 400
        /\ ~req'.wrote
        /\ req'.upserted = 0
        /\ files' = files
        /\ vectors' = vectors
        /\ documents' = documents]_vars

\* "a.PDF" was rejected while a document was stored
C2_Witness ==
    /\ req.op = "upload" /\ req.filename = UpperName
    /\ resp.status = 400
    /\ DOMAIN documents # {} /\ files # {} /\ DOMAIN vectors # {}

\* C3: when text extraction yields empty text, upload_document answers the
\* client with HTTP 400 ("Could not extract text from PDF").
C3_EmptyTextAnswers400 ==
    (req.op = "upload" /\ req.text_empty) => resp.status = 400

\* C4: when db.add_document fails after the chunks were added to the index,
\* upload_document issues a vector delete for the document_id and removes the
\* saved file before it answers with an error, so that the failed upload
\* leaves no record, no file and no vectors of that document_id.
C4_RollbackLeavesNothing ==
    (req.op = "upload" /\ req.db_failed) =>
        /\ req.vec_delete = req.document_id
        /\ resp.status >= 400
        /\ req.document_id \notin DOMAIN documents
        /\ FilePath(req.document_id, req.filename) \notin files
        /\ req.document_id \notin DOMAIN vectors

\* C5: the delete_document route for a document_id with no record answers
\* HTTP 404 and changes nothing: no vector delete is issued, no file is
\* removed and the documents table is unchanged.
C5_DeleteMissingChangesNothing ==
    [][(req'.op = "delete" /\ req'.document_id \notin DOMAIN documents) =>
        /\ resp'.status = 404
        /\ req'.vec_delete = 0
        /\ ~req'.removed
        /\ documents' = documents
        /\ files' = files
        /\ vectors' = vectors]_vars

\* a delete of an id that has no record but still has vectors answered 404
C5_Witness ==
    /\ req.op = "delete" /\ resp.status = 404
    /\ req.document_id \notin DOMAIN documents
    /\ req.document_id \in DOMAIN vectors
    /\ DOMAIN documents # {}

\* C6: whenever the delete_document route answers with status "success" for
\* a document_id, that document then has no record, no vectors and no file
\* at its file_path, and every other document's record, file and vectors are
\* unchanged.
C6_DeleteSuccessRemovesAll ==
    [][(resp'.op = "delete" /\ resp'.doc_status = "success") =>
        LET id == resp'.document_id IN
        /\ id \in DOMAIN documents
        /\ id \notin DOMAIN documents'
        /\ id \notin DOMAIN vectors'
        /\ documents[id].file_path \notin files'
        /\ DOMAIN documents' = DOMAIN documents \ {id}
        /\ \A d \in DOMAIN documents' : documents'[d] = documents[d]
        /\ DOMAIN vectors' = DOMAIN vectors \ {id}
        /\ \A d \in DOMAIN vectors' : vectors'[d] = vectors[d]
        /\ files' = files \ {documents[id].file_path}]_vars

\* a delete succeeded while another document keeps its record, file and vectors
C6_Witness ==
    /\ resp.op = "delete" /\ resp.doc_status = "success"
    /\ \E d \in DOMAIN documents :
          /\ d # resp.document_id
          /\ d \in DOMAIN vectors
          /\ documents[d].file_path \in files

\* C7: every stored conversation holds at most 10 messages, and they are
\* the 10 (or fewer) most recently appended messages of that conversation,
\* in their original order.
C7_StoredIsLastTen ==
    \A c \in DOMAIN conversations :
        LET log == convLog[c]
            n == Len(log)
            stored == conversations[c]
        IN
        /\ Len(stored) <= 10
        /\ Len(stored) = IF n <= 10 THEN n ELSE 10
        /\ \A i \in 1..Len(stored) : stored[i] = log[n - Len(stored) + i]

\* a conversation that was appended to more than ten times, the dropped
\* messages differing from the kept ones
C7_Witness ==
    \E c \in DOMAIN conversations :
        /\ Len(convLog[c]) > 10
        /\ Len(conversations[c]) = 10
        /\ convLog[c][1] # convLog[c][11]

C9_GenerationFailureLeavesStore ==
    [][(chatReq'.op = "chat" /\ chatReq'.gen_failed) =>
        /\ chatResp'.status = 500
        /\ conversations' = conversations]_vars

\* generation failed for a request on an existing conversation
C9_Witness ==
    /\ chatReq.op = "chat" /\ chatReq.gen_failed
    /\ chatResp.status = 500
    /\ chatReq.conversation_id \in DOMAIN conversations
    /\ conversations[chatReq.conversation_id] # <<>>

\* the tokens the claim calls retained: longer than 2 and no stopword
C10_Retained(s) ==
    SelectSeq(FindTokens(LowerText(s), 1, <<>>),
              LAMBDA t : Len(t) > 2 /\ t \notin stop_words)

RECURSIVE C10_SumCounts(_, _)
C10_SumCounts(S, tokens) ==
    IF S = {} THEN 0
    ELSE LET t == CHOOSE x \in S : TRUE
         IN TokenCount(tokens, t) + C10_SumCounts(S \ {t}, tokens)

RECURSIVE C10_SumValues(_)
C10_SumValues(values) ==
    IF values = <<>> THEN Rat(0, 1)
    ELSE RatAdd(Head(values), C10_SumValues(Tail(values)))

\* C10: create_sparse_vector returns indices and values of equal length; the
\* indices are strictly increasing and lie in 0..99999; each value is the
\* sum, over the retained tokens that hash to its index, of
\* count/total_retained_tokens (colliding tokens add); the values sum to 1
\* when a token is retained, and both lists are empty when none is.
C10_SparseVectorShape ==
    sparse.called =>
        LET kept == C10_Retained(text)
            total == Len(kept)
            keys == {kept[i] : i \in 1..total}
            n == Len(sparse.indices)
        IN
        /\ Len(sparse.values) = n
        /\ \A i \in 1..n : sparse.indices[i] \in 0..99999
        /\ \A i \in 1..(n - 1) : sparse.indices[i] < sparse.indices[i + 1]
        /\ {sparse.indices[i] : i \in 1..n}
              = {TokenIndex(hashSeed, t) : t \in keys}
        /\ \A i \in 1..n :
              RatEq(sparse.values[i],
                    Rat(C10_SumCounts(
                            {t \in keys :
                                TokenIndex(hashSeed, t) = sparse.indices[i]},
                            kept),
                        total))
        /\ total > 0 => RatEq(C10_SumValues(sparse.values), Rat(1, 1))
        /\ total = 0 => sparse.indices = <<>> /\ sparse.values = <<>>

\* two tokens of different counts collided into one index
C10_Witness ==
    /\ sparse.called
    /\ Len(sparse.indices) = 1
    /\ LET kept == C10_Retained(text) IN
       \E i, j \in 1..Len(kept) :
          /\ kept[i] # kept[j]
          /\ TokenCount(kept, kept[i]) = 2
          /\ TokenCount(kept, kept[j]) = 1

\* C11: after any sequence of add_document and delete_document calls the
\* documents table holds at most one record per document_id, and
\* add_document for an id that already has a record returns False and leaves
\* that record and the rest of the table unchanged.
C11_PrimaryKeyUnique ==
    [][/\ \A i, j \in 1..Len(rows') :
             rows'[i].document_id = rows'[j].document_id => i = j
       /\ (/\ dbRet'.op = "add"
           /\ \E i \in 1..Len(rows) :
                 rows[i].document_id = dbRet'.info.document_id)
          => (~dbRet'.result /\ rows' = rows)]_vars

\* an add_document for a stored id, with other values than the stored row's,
\* was refused while two rows were in the table
C11_Witness ==
    /\ dbRet.op = "add" /\ dbRet.existed /\ ~dbRet.result
    /\ Len(rows) = 2
    /\ \E i \in 1..Len(rows) :
          /\ rows[i].document_id = dbRet.info.document_id
          /\ rows[i].chunks_count # dbRet.info.chunks_count

\* C12: for two chat requests with the same conversation_id that both
\* complete successfully, under every interleaving the event loop permits,
\* the stored conversation then holds the user/assistant pair of both
\* requests, whether or not the conversation existed before them.
C12_NoLostUpdate ==
    (\A p \in Tasks : cPc[p] = "done") =>
        /\ cStore # 0
        /\ \A p \in Tasks :
              \E i \in 1..(Len(cHeap[cStore]) - 1) :
                 /\ cHeap[cStore][i] =
                       [role |-> "user", content |-> TaskMessage(p)]
                 /\ cHeap[cStore][i + 1] =
                       [role |-> "assistant", content |-> cGen[p]]

\* both requests completed on a conversation that did not exist before
C12_Witness ==
    /\ \A p \in Tasks : cPc[p] = "done"
    /\ ~cExisted
    /\ Len(cHeap[cStore]) = 4

\* C13: create_sparse_vector gives the same vector for the same text on
\* every call, and a token gets the same index when a chunk is indexed
\* (add_documents) as when a query is made (search_similar), also when the
\* two happen in different server processes.
C13_SameIndexAtIndexAndQueryTime ==
    query.called =>
        \A rec \in pinecone :
           /\ rec.text = query.text => rec.sparse_values = query.sparse_values
           /\ \A t \in DOMAIN rec.token_index \cap DOMAIN query.token_index :
                 rec.token_index[t] = query.token_index[t]

====
